---- MODULE Spec2Model ----
(***************************************************************************)
(* Model of the ControlAgent two-phase control-generation workflow         *)
(* (app/langgraph_agent.py), the /select-controls handler                  *)
(* (app/routers/controls.py), the three stores it persists to              *)
(* (app/database.py, app/neo4j_db.py, app/postgres.py) and the context     *)
(* fusion of app/rag_service.py.                                           *)
(*                                                                         *)
(* One request is in flight at a time; its position is pc.  Every loop     *)
(* iteration that calls a store or the completion service is one step, so  *)
(* that the order of the writes is visible in the reachable states.        *)
(***************************************************************************)
EXTENDS Integers, Sequences, FiniteSets, TLC

VARIABLES
    mongoControls,   \* document store, collection "controls": sequence of documents
    sessions,        \* document store, collection "sessions": session id -> document
    graphNodes,      \* graph store: sequence of nodes [label, id]
    graphEdges,      \* graph store: sequence of relationships [type, from, to]
    vectorRows,      \* vector store, table control_embeddings: sequence of rows
    nextUuid,        \* number of uuid4 values drawn so far (each draw is fresh)
    pc,              \* position of the request in flight ("idle" when none)
    st,              \* AgentState of the last workflow invocation
    job,             \* locals of the persistence code (controls_to_store, loop index, ...)
    http,            \* response of the last /select-controls request
    visited,         \* workflow nodes entered by the current invocation, in order
    genCalls,        \* completion calls made by the Generation Step in this invocation
    resumed,         \* the session the current run() call resumes ("" when none)
    persistLog,      \* one summary per finished persistence operation
    nOps,            \* number of requests started, by entry point
    faults,          \* number of calls that failed (store, embedding, completion)
    fusion,          \* one general control query: source results, fused list, reply
    call             \* the request in flight or last served: its arguments, the
                     \* sizes of the stores when it started, its embedding calls

vars == <<mongoControls, sessions, graphNodes, graphEdges, vectorRows, nextUuid,
          pc, st, job, http, visited, genCalls, resumed, persistLog, nOps, faults,
          fusion, call>>

-----------------------------------------------------------------------------
(* Bounds of the model *)

MaxOps == 3          \* requests per behaviour
MaxRuns == 2         \* of which calls of ISO27001Agent.run
MaxCands == 2        \* candidate controls generated by one request
MaxFaults == 1       \* failing calls per behaviour
MaxStored == 4       \* confirmed controls in the stores when a query is fused

-----------------------------------------------------------------------------
(* Inputs *)

Users == {"alice", "bob"}

\* The risk register of each user (read-only to the workflow).
RiskRegister ==
    [u \in Users |->
        IF u = "alice"
        THEN << [id |-> "risk_001", category |-> "Technical Risk"],
                [id |-> "risk_002", category |-> "Compliance Risk"] >>
        ELSE << >>]

\* One control as the completion service may return it: id and control_id are
\* optional in its JSON ("" stands for an absent or empty value).
Raw(id, control_id) ==
    [id |-> id, control_id |-> control_id, annex_reference |-> "A.5.1"]

\* Outputs of one completion call: no control, two well-formed controls, two
\* controls of which the second has the first one's control_id as its id, a
\* control without identifiers, a control without reference code.
CompletionOutputs ==
    { << >>,
      << Raw("id-1", "CTRL-001"), Raw("id-2", "CTRL-002") >>,
      << Raw("id-1", "CTRL-001"), Raw("CTRL-001", "") >>,
      << Raw("", "") >>,
      << [Raw("id-1", "CTRL-001") EXCEPT !.annex_reference = ""] >> }

\* Selections a client may send: empty, by control_id, with an identifier no
\* candidate has, with such an identifier after a UUID, two identifiers (of two
\* candidates, or of one candidate by its UUID and by its control_id).
Selections ==
    { << >>, << "CTRL-001" >>, << "id-9999" >>, << "id-1", "id-9999" >>,
      << "id-1", "CTRL-001" >> }

\* The content of one completion response: a JSON list of controls, or text
\* that json.loads rejects (here a list cut off after its first control).
CompletionContents ==
    { [parsable |-> TRUE, controls |-> out] : out \in CompletionOutputs }
    \cup { [parsable |-> FALSE, controls |-> << Raw("id-1", "CTRL-001") >>] }

NoParams == [risk_id |-> "", risk_category |-> ""]

\* What classify_intent can return: an intent with the parameters it extracted.
ClassifierResults ==
    { [intent |-> i, parameters |-> NoParams] :
          i \in { "generate_controls_all", "query_controls",
                  "store_selected_controls" } }
    \cup { [intent |-> "generate_controls_specific",
            parameters |-> [risk_id |-> "risk_001", risk_category |-> ""]] }

-----------------------------------------------------------------------------
(* Helpers *)

Range(s) == { s[i] : i \in DOMAIN s }

StartsWith(intent, prefix) ==
    IF prefix = "generate_controls"
    THEN intent \in { "generate_controls_specific", "generate_controls_all",
                      "generate_controls_category" }
    ELSE intent = prefix

Uuid(n) == "uuid-" \o ToString(n)

Pad3(n) ==
    IF n < 10 THEN "00" \o ToString(n)
    ELSE IF n < 100 THEN "0" \o ToString(n) ELSE ToString(n)

-----------------------------------------------------------------------------
(* Response texts, by the information they carry *)

\* A response text: its kind, the number of controls it states as saved, whether
\* it states that graph relationships / vector embeddings were made, how many
\* graph failures it flags and which selected identifiers it names as unresolved.
Msg(kind) ==
    [kind |-> kind, count |-> 0, graph_established |-> FALSE,
     vectors_created |-> FALSE, graph_failures |-> 0, unresolved |-> {}]

NoMsg == Msg("")

\* "Successfully saved {n} controls with risk mapping. Controls are now stored in
\* the database, vector embeddings created, and knowledge graph relationships
\* established."
SavedMsg(n) ==
    [kind |-> "saved", count |-> n, graph_established |-> TRUE,
     vectors_created |-> TRUE, graph_failures |-> 0, unresolved |-> {}]

\* "Error: No controls found for the selected IDs. Please try again." (workflow),
\* HTTP 400 "No controls found for the selected IDs" (handler)
NotFoundMsg == Msg("selected_ids_not_found")

-----------------------------------------------------------------------------
(* Document store: app/database.py *)

\* A candidate / confirmed control, by the fields the workflow reads.
Control(id, control_id, risk_id, user_id, annex_reference) ==
    [id |-> id, control_id |-> control_id, risk_id |-> risk_id, user_id |-> user_id,
     annex_reference |-> annex_reference]

\* save_controls, one iteration: control["_id"] = str(uuid.uuid4());
\* self.controls.insert_one(control)
InsertControl(docs, control, n) ==
    Append(docs, [_id |-> Uuid(n), id |-> control.id, control_id |-> control.control_id,
                  risk_id |-> control.risk_id, user_id |-> control.user_id,
                  annex_reference |-> control.annex_reference])

\* get_controls_by_risk: find({"risk_id": risk_id, "user_id": user_id})
GetControlsByRisk(docs, risk_id, user_id) ==
    SelectSeq(docs, LAMBDA d : d.risk_id = risk_id /\ d.user_id = user_id)

RECURSIVE FindRisk(_, _, _)
FindRisk(risks, risk_id, i) ==
    IF i > Len(risks) THEN 0
    ELSE IF risks[i].id = risk_id THEN i ELSE FindRisk(risks, risk_id, i + 1)

\* get_risk_by_id: index of the user's risk with that id, 0 when there is none
GetRiskById(risk_id, user_id) == FindRisk(RiskRegister[user_id], risk_id, 1)

-----------------------------------------------------------------------------
(* Graph store: app/neo4j_db.py *)

HasNode(nodes, label, id) ==
    \E i \in DOMAIN nodes : nodes[i].label = label /\ nodes[i].id = id

\* MERGE (n:label {id: $id})
MergeNode(nodes, label, id) ==
    IF HasNode(nodes, label, id) THEN nodes
    ELSE Append(nodes, [label |-> label, id |-> id])

\* MERGE (a)-[:type]->(b)
MergeEdge(edges, type, from, to) ==
    IF \E i \in DOMAIN edges :
          edges[i].type = type /\ edges[i].from = from /\ edges[i].to = to
    THEN edges
    ELSE Append(edges, [type |-> type, from |-> from, to |-> to])

\* create_control_node when both queries run: MERGE the Risk, MERGE the Control,
\* then MATCH the User and the Risk and MERGE the two relationships; when the
\* MATCH of the User finds no node, the query yields no row and merges no edge.
CreateControlNodeNodes(nodes, c) ==
    MergeNode(MergeNode(nodes, "Risk", c.risk_id), "Control", c.id)

CreateControlNodeEdges(nodes, edges, c) ==
    IF HasNode(nodes, "User", c.user_id)
    THEN MergeEdge(MergeEdge(edges, "SELECTED_CONTROL", c.user_id, c.id),
                   "MITIGATES", c.id, c.risk_id)
    ELSE edges

-----------------------------------------------------------------------------
(* Vector store: app/postgres.py, app/rag_service.py *)

\* store_control_embedding: INSERT ... ON CONFLICT (control_id) DO UPDATE; the
\* caller (store_control_embeddings) passes control['id'] as control_id.
UpsertControlEmbedding(rows, c) ==
    IF \E i \in DOMAIN rows : rows[i].control_id = c.id
    THEN rows
    ELSE Append(rows, [control_id |-> c.id, user_id |-> c.user_id])

-----------------------------------------------------------------------------
(* Selection matching: store_data_node and select_controls *)

\* next((control for control in generated_controls if <field> == selected_id), None):
\* the index of the first candidate whose field equals the identifier, 0 for None
RECURSIVE NextByField(_, _, _, _)
NextByField(cands, field, selected_id, i) ==
    IF i > Len(cands) THEN 0
    ELSE IF cands[i][field] = selected_id THEN i
    ELSE NextByField(cands, field, selected_id, i + 1)

ResolveByControlIdFirst(cands, selected_id) ==
    LET control_by_uuid == NextByField(cands, "id", selected_id, 1)
        control_by_control_id == NextByField(cands, "control_id", selected_id, 1)
    IN  IF control_by_control_id # 0 THEN control_by_control_id
        ELSE control_by_uuid

\* One iteration of "for selected_id in ...": the candidate found by UUID, else
\* the one found by control_id, else none (0).
ResolveSelected(cands, selected_id) ==
    LET control_by_uuid == NextByField(cands, "id", selected_id, 1)
        control_by_control_id == NextByField(cands, "control_id", selected_id, 1)
    IN  IF control_by_uuid # 0 THEN control_by_uuid
        ELSE IF control_by_control_id # 0 THEN control_by_control_id
        ELSE 0

\* controls_to_store / selected_controls after the loop over the selection
RECURSIVE ControlsToStore(_, _)
ControlsToStore(cands, sel) ==
    IF sel = << >> THEN << >>
    ELSE LET k == ResolveSelected(cands, Head(sel))
             rest == ControlsToStore(cands, Tail(sel))
         IN  IF k # 0 THEN << cands[k] >> \o rest ELSE rest

-----------------------------------------------------------------------------
(* Context fusion for a general control query: app/rag_service.py,          *)
(* app/postgres.py, app/annex_service.py, app/openai_service.py             *)

\* Similarity scores, in hundredths: 0.60, 0.79, 0.80, 0.82, 0.95
Scores == {60, 79, 80, 82, 95}

\* annex_data, the reference corpus, by the reference code of each entry
AnnexData == << [reference |-> "A.5.1"], [reference |-> "A.8.5"] >>

\* One entry of a result list.  control_id, reference, similarity and source are
\* the keys the fusion and the reply read ("" and 0 are the defaults of
\* dict.get); of names what the entry stands for, the locally-generated
\* identifier of a stored control or the reference code of a corpus entry.
Item(id, control_id, annex_reference, reference, similarity, source, of) ==
    [id |-> id, control_id |-> control_id, annex_reference |-> annex_reference,
     reference |-> reference, similarity |-> similarity, source |-> source,
     of |-> of]

\* items[:n]
Top(items, n) == SubSeq(items, 1, IF Len(items) < n THEN Len(items) ELSE n)

\* list.sort(key=similarity, reverse=True): stable, largest first
RECURSIVE SortBySimilarity(_)
SortBySimilarity(items) ==
    IF items = << >> THEN << >>
    ELSE LET init == SortBySimilarity(SubSeq(items, 1, Len(items) - 1))
             x == items[Len(items)]
             k == Cardinality({ i \in DOMAIN init :
                                  init[i].similarity >= x.similarity })
         IN  SubSeq(init, 1, k) \o << x >> \o SubSeq(init, k + 1, Len(init))

\* _search_existing_controls_by_query: the user's documents scored against the
\* query, the five most similar ones enriched; id is str(_id), control_id the
\* document's control_id.
SearchExistingControlsByQuery(docs, user_id, score) ==
    LET all_controls == SelectSeq(docs, LAMBDA d : d.user_id = user_id)
        control_scores ==
            [i \in DOMAIN all_controls |->
                LET control == all_controls[i]
                IN  Item(control._id, control.control_id, control.annex_reference,
                         "", score[control.id], "", control.id)]
    IN  Top(SortBySimilarity(control_scores), 5)

\* _search_existing_controls_by_text: MongoDBService has no method
\* search_controls_by_text, the call raises and the except clause returns [].
SearchExistingControlsByText(docs, user_id) == << >>

\* search_similar_controls(limit=15): SELECT control_id, user_id, ..., similarity
\* FROM control_embeddings ORDER BY distance LIMIT 15, over the rows of all
\* users; rows at the same distance come in any order.
SearchSimilarControls(rows, score) ==
    LET scored == [i \in DOMAIN rows |->
                      Item("", rows[i].control_id, "", "", score[rows[i].control_id],
                           "", rows[i].control_id)]
    IN  { Top([i \in DOMAIN scored |-> scored[p[i]]], 15) :
            p \in { q \in [DOMAIN scored -> DOMAIN scored] :
                      /\ \A i, j \in DOMAIN scored : i # j => q[i] # q[j]
                      /\ \A i, j \in DOMAIN scored :
                            i < j => scored[q[i]].similarity >= scored[q[j]].similarity } }

\* combined_iso_guidance: the entries search_annex_controls matched (limit 5), or
\* get_annex_controls(limit=5) when it matched none
CombinedIsoGuidance(matched) ==
    LET text_based_annex_controls ==
            Top(SelectSeq(AnnexData, LAMBDA a : a.reference \in matched), 5)
        chosen == IF text_based_annex_controls # << >>
                  THEN text_based_annex_controls ELSE Top(AnnexData, 5)
    IN  [i \in DOMAIN chosen |->
            Item("", "", "", chosen[i].reference, 0, "", chosen[i].reference)]

\* "for control in <items>: if control.get(<key>) not in <keys of all_controls
\* before the loop>: control['source'] = <source>; all_controls.append(control)"
AddNew(all_controls, items, key, source) ==
    LET existing_keys == { all_controls[i][key] : i \in DOMAIN all_controls }
        added == SelectSeq(items, LAMBDA c : c[key] \notin existing_keys)
    IN  all_controls \o [i \in DOMAIN added |-> [added[i] EXCEPT !.source = source]]

\* _get_general_query_context, step 6: the merged list "similar_controls"
GetGeneralQueryContext(existing_controls, text_search_controls, similar_controls, combined_iso_guidance) ==
    LET a1 == [i \in DOMAIN existing_controls |->
                 [existing_controls[i] EXCEPT !.source = "existing_user_controls"]]
        a2 == AddNew(a1, text_search_controls, "control_id", "text_search")
        a3 == AddNew(a2, similar_controls, "control_id", "vector_search")
    IN  AddNew(a3, combined_iso_guidance, "reference", "iso_guidance")

HighRelevanceAtLeast(similar_controls) ==
    SelectSeq(similar_controls,
              LAMBDA control : /\ control.source = "vector_search"
                               /\ control.similarity >= 80)

\* generate_general_controls_response: the controls the reply shows
HighRelevanceControls(similar_controls) ==
    SelectSeq(similar_controls,
              LAMBDA control : /\ control.source = "vector_search"
                               /\ control.similarity > 80)

\* "control['source'] = 'iso_guidance'" on the entries of combined_iso_guidance:
\* get_annex_controls and search_annex_controls return the dicts of
\* annex_service.annex_data themselves, so the assignment sets the key on the
\* corpus entry (source "" stands for an entry without the key).
TagAnnexData(annex_data, all_controls) ==
    [i \in DOMAIN annex_data |->
        IF \E k \in DOMAIN all_controls :
               /\ all_controls[k].source = "iso_guidance"
               /\ all_controls[k].reference = annex_data[i].reference
        THEN [annex_data[i] EXCEPT !.source = "iso_guidance"]
        ELSE annex_data[i]]

NoFusion ==
    [stage |-> "idle", user_id |-> "", existing_controls |-> << >>,
     text_search_controls |-> << >>, similar_controls |-> << >>,
     combined_iso_guidance |-> << >>, all_controls |-> << >>,
     high_relevance_controls |-> << >>, query |-> "", matched |-> {},
     failed |-> {}, raised |-> FALSE, embedding_calls |-> 0,
     vector_lookups |-> 0,
     annex_data |-> [i \in DOMAIN AnnexData |->
                       [reference |-> AnnexData[i].reference, source |-> ""]]]

-----------------------------------------------------------------------------
(* State of a request *)

EmptyContext == [kind |-> "", risks |-> << >>]

\* initial_state of run()
InitialState(user_id) ==
    [user_id |-> user_id, intent |-> "", parameters |-> NoParams,
     retrieved_context |-> EmptyContext, generated_controls |-> << >>,
     selected_controls |-> << >>, final_response |-> NoMsg,
     pending_selection |-> FALSE, session_id |-> ""]

NoJob ==
    [via |-> "", sid |-> "", sel |-> << >>, cands |-> << >>, controls |-> << >>,
     i |-> 0, saved_control_ids |-> << >>, neo4j_success_count |-> 0,
     doc_ids |-> << >>, graph_ids |-> << >>, graph_failed |-> 0,
     vector_ids |-> << >>, risks |-> << >>, all_controls |-> << >>]

NoHttp == [status |-> 0, msg |-> NoMsg]

\* The number of records in each store.
StoreSizes ==
    [docs |-> Len(mongoControls), nodes |-> Len(graphNodes),
     edges |-> Len(graphEdges), rows |-> Len(vectorRows)]

NoCall ==
    [via |-> "", selection |-> FALSE, session |-> "none", query_embeddings |-> 0,
     before |-> [docs |-> 0, nodes |-> 0, edges |-> 0, rows |-> 0],
     raised |-> FALSE, controls |-> << >>,
     completion |-> [risk |-> "", outcome |-> "", before |-> 0, yielded |-> 0]]

\* The arguments of a request: whether it carries a selection, and whether its
\* session identifier is absent, names no stored session or names one.
StartCall(via, selected, session_id) ==
    [via |-> via, selection |-> selected # << >>,
     session |-> IF session_id = "" THEN "none"
                 ELSE IF session_id \in DOMAIN sessions THEN "known" ELSE "unknown",
     query_embeddings |-> 0, before |-> StoreSizes, raised |-> FALSE,
     controls |-> << >>, completion |-> NoCall.completion]

\* A call to a store, the embedding service or the completion service either
\* works or fails.
Works == UNCHANGED faults

Fails == faults < MaxFaults /\ faults' = faults + 1

\* Summary of a finished persistence operation: what was asked, what each store
\* received and what the caller was told.
LogEntry(j, mongo_failed, msg) ==
    [via |-> j.via, sid |-> j.sid, sel |-> j.sel, cands |-> j.cands,
     controls |-> j.controls, doc_ids |-> j.doc_ids, graph_ids |-> j.graph_ids,
     graph_failed |-> j.graph_failed, vector_ids |-> j.vector_ids,
     mongo_failed |-> mongo_failed, msg |-> msg]

Init ==
    /\ mongoControls = << >>
    /\ sessions = [s \in {} |-> << >>]
    /\ graphNodes = << [label |-> "User", id |-> "alice"] >>
    /\ graphEdges = << >>
    /\ vectorRows = << >>
    /\ nextUuid = 0
    /\ pc = "idle"
    /\ st = InitialState("")
    /\ job = NoJob
    /\ http = NoHttp
    /\ visited = << >>
    /\ genCalls = 0
    /\ resumed = ""
    /\ persistLog = << >>
    /\ nOps = [run |-> 0, select |-> 0]
    /\ faults = 0
    /\ fusion = NoFusion
    /\ call = NoCall

-----------------------------------------------------------------------------
(* Persistence: store_data_node lines 586-645, select_controls lines 141-188 *)

\* The persistence code ends: the workflow goes on to store_query_embedding with
\* its final_response set, the handler returns its HTTP response.
EndPersist(j, mongo_failed, msg, status) ==
    /\ persistLog' = Append(persistLog, LogEntry(j, mongo_failed, msg))
    /\ job' = NoJob
    /\ IF j.via = "workflow"
       THEN /\ st' = [st EXCEPT !.final_response = msg]
            /\ pc' = "store_query_embedding"
            /\ UNCHANGED http
       ELSE /\ http' = [status |-> status, msg |-> msg]
            /\ pc' = "idle"
            /\ UNCHANGED st

SaveControlsIgnoringFailure ==
    /\ pc = "save_controls"
    /\ LET c == job.controls[job.i]
           next == IF job.i = Len(job.controls) THEN 1 ELSE job.i + 1
       IN
       \/ /\ mongoControls' = InsertControl(mongoControls, c, nextUuid)
          /\ nextUuid' = nextUuid + 1
          /\ job' = [job EXCEPT
                        !.saved_control_ids = Append(@, Uuid(nextUuid)),
                        !.doc_ids = Append(@, c.id),
                        !.i = next]
          /\ Works
       \/ /\ job' = [job EXCEPT !.i = next]
          /\ UNCHANGED <<mongoControls, nextUuid>>
          /\ Fails
    /\ pc' = IF job.i = Len(job.controls) THEN "create_control_node"
             ELSE "save_controls"
    /\ UNCHANGED <<sessions, graphNodes, graphEdges, vectorRows, st, http, visited,
                   genCalls, resumed, persistLog, nOps, fusion, call>>

\* mongo.save_controls(controls_to_store): one insert_one per step; an insert
\* that raises ends the persistence with a failure response.
SaveControlsStep ==
    /\ pc = "save_controls"
    /\ LET c == job.controls[job.i] IN
       \/ /\ mongoControls' = InsertControl(mongoControls, c, nextUuid)
          /\ nextUuid' = nextUuid + 1
          /\ job' = [job EXCEPT
                        !.saved_control_ids = Append(@, Uuid(nextUuid)),
                        !.doc_ids = Append(@, c.id),
                        !.i = IF job.i = Len(job.controls) THEN 1 ELSE @ + 1]
          /\ pc' = IF job.i = Len(job.controls) THEN "create_control_node"
                   ELSE "save_controls"
          /\ UNCHANGED <<st, http, persistLog>>
          /\ Works
       \/ /\ EndPersist(job, TRUE, Msg("save_failed"), 500)
          /\ Fails
          /\ UNCHANGED <<mongoControls, nextUuid>>
    /\ UNCHANGED <<sessions, graphNodes, graphEdges, vectorRows, visited, genCalls,
                   resumed, nOps,
                   fusion, call>>

\* for control in controls_to_store: graph_db.create_control_node(control);
\* a write that fails returns False (or raises) and the loop goes on.
CreateControlNodeStep ==
    /\ pc = "create_control_node"
    /\ LET c == job.controls[job.i]
           next == [job EXCEPT !.i = IF job.i = Len(job.controls) THEN 1 ELSE @ + 1]
       IN
       \/ /\ graphNodes' = CreateControlNodeNodes(graphNodes, c)
          /\ graphEdges' = CreateControlNodeEdges(graphNodes', graphEdges, c)
          /\ job' = [next EXCEPT !.neo4j_success_count = @ + 1,
                                 !.graph_ids = Append(@, c.id)]
          /\ Works
       \/ /\ UNCHANGED <<graphNodes, graphEdges>>
          /\ job' = [next EXCEPT !.graph_failed = @ + 1]
          /\ Fails
    /\ pc' = IF job.i = Len(job.controls) THEN "store_control_embeddings"
             ELSE "create_control_node"
    /\ UNCHANGED <<mongoControls, sessions, vectorRows, nextUuid, st, http, visited,
                   genCalls, resumed, persistLog, nOps,
                   fusion, call>>

\* rag.store_control_embeddings(controls_to_store), one control per step: the
\* embedding call may raise, which leaves the loop (the caller catches it); the
\* upsert swallows its own database error and the loop goes on.
StoreControlEmbeddingStep ==
    /\ pc = "store_control_embeddings"
    /\ LET c == job.controls[job.i]
           last == job.i = Len(job.controls)
       IN
       \/ /\ vectorRows' = UpsertControlEmbedding(vectorRows, c)
          /\ job' = [job EXCEPT !.vector_ids = Append(@, c.id), !.i = @ + 1]
          /\ pc' = IF last THEN "finish_persist" ELSE "store_control_embeddings"
          /\ Works
       \/ /\ UNCHANGED vectorRows
          /\ job' = [job EXCEPT !.i = @ + 1]
          /\ pc' = IF last THEN "finish_persist" ELSE "store_control_embeddings"
          /\ Fails
       \/ /\ UNCHANGED vectorRows
          /\ job' = job
          /\ pc' = "finish_persist"
          /\ Fails
    /\ UNCHANGED <<mongoControls, sessions, graphNodes, graphEdges, nextUuid, st, http,
                   visited, genCalls, resumed, persistLog, nOps,
                   fusion, call>>

\* The end of the persistence code: the handler marks the session stored
\* (update_session) and both callers build the success message from
\* len(controls_to_store) alone.
FinishPersist ==
    /\ pc = "finish_persist"
    /\ IF job.via = "select"
       THEN sessions' = [sessions EXCEPT ![job.sid] =
                [@ EXCEPT !.controls_stored = TRUE,
                          !.stored_control_ids = job.saved_control_ids]]
       ELSE UNCHANGED sessions
    /\ EndPersist(job, FALSE, SavedMsg(Len(job.controls)), 200)
    /\ UNCHANGED <<mongoControls, graphNodes, graphEdges, vectorRows, nextUuid, visited,
                   genCalls, resumed, nOps, faults,
                   fusion, call>>

-----------------------------------------------------------------------------
(* POST /select-controls: app/routers/controls.py lines 82-140 *)

StartJob(via, sid, sel, cands, controls) ==
    [NoJob EXCEPT !.via = via, !.sid = sid, !.sel = sel, !.cands = cands,
                  !.controls = controls, !.i = 1]

SelectControls(user, session_id, selected_control_ids) ==
    /\ pc = "idle"
    /\ nOps.run + nOps.select < MaxOps
    /\ nOps' = [nOps EXCEPT !.select = @ + 1]
    /\ visited' = << >>
    /\ resumed' = ""
    /\ genCalls' = 0
    /\ st' = InitialState("")
    /\ call' = StartCall("select", selected_control_ids, session_id)
    /\ UNCHANGED <<mongoControls, sessions, graphNodes, graphEdges, vectorRows,
                   nextUuid, faults,
                   fusion>>
    /\ IF session_id \notin DOMAIN sessions
       THEN /\ http' = [status |-> 404, msg |-> Msg("session_not_found")]
            /\ UNCHANGED <<pc, job, persistLog>>
       ELSE LET generated_controls == sessions[session_id].state.generated_controls
                selected_controls ==
                    ControlsToStore(generated_controls, selected_control_ids)
                j == StartJob("select", session_id, selected_control_ids,
                              generated_controls, selected_controls)
            IN  IF generated_controls = << >>
                THEN /\ http' = [status |-> 400, msg |-> Msg("no_generated_controls")]
                     /\ UNCHANGED <<pc, job, persistLog>>
                ELSE IF selected_controls = << >>
                THEN /\ http' = [status |-> 400, msg |-> NotFoundMsg]
                     /\ persistLog' = Append(persistLog, LogEntry(j, FALSE, NotFoundMsg))
                     /\ UNCHANGED <<pc, job>>
                ELSE /\ job' = j
                     /\ pc' = "save_controls"
                     /\ UNCHANGED <<http, persistLog>>

-----------------------------------------------------------------------------
(* ISO27001Agent.run and the workflow nodes: app/langgraph_agent.py *)

\* run(): a call carrying a session id and a selection resumes from the session's
\* snapshot when the session exists, any other call starts from initial_state;
\* either way the compiled workflow is invoked and starts at its entry point.
\* get_user_context and get_session are called outside any try block: when the
\* document store fails there, run() raises and returns no result.
Run(user_id, selected_controls, session_id) ==
    /\ pc = "idle"
    /\ nOps.run + nOps.select < MaxOps
    /\ nOps.run < MaxRuns
    /\ nOps' = [nOps EXCEPT !.run = @ + 1]
    /\ \/ /\ LET found == /\ session_id # ""
                          /\ selected_controls # << >>
                          /\ session_id \in DOMAIN sessions
                 state == sessions[session_id].state
                 storage_state ==
                     [user_id |-> user_id, intent |-> state.intent,
                      parameters |-> state.parameters,
                      retrieved_context |-> state.retrieved_context,
                      generated_controls |-> state.generated_controls,
                      selected_controls |-> selected_controls,
                      final_response |-> NoMsg, pending_selection |-> FALSE,
                      session_id |-> session_id]
             IN  /\ st' = IF found
                          THEN IF state.generated_controls # << >>
                               THEN storage_state
                               ELSE [state EXCEPT !.selected_controls = selected_controls]
                          ELSE InitialState(user_id)
                 /\ resumed' = IF found /\ state.generated_controls # << >>
                               THEN session_id ELSE ""
          /\ pc' = "classify_intent"
          /\ call' = StartCall("run", selected_controls, session_id)
          /\ Works
       \/ /\ st' = InitialState("")
          /\ resumed' = ""
          /\ pc' = "idle"
          /\ call' = [StartCall("run", selected_controls, session_id) EXCEPT
                         !.raised = TRUE]
          /\ Fails
    /\ visited' = << >>
    /\ genCalls' = 0
    /\ http' = NoHttp
    /\ UNCHANGED <<mongoControls, sessions, graphNodes, graphEdges, vectorRows,
                   nextUuid, job, persistLog,
                   fusion>>

RouteToRetrieval(state) == "retrieve_context"

RouteAfterClassification(state) ==
    IF /\ state.intent = "store_selected_controls"
       /\ state.generated_controls # << >>
       /\ state.selected_controls # << >>
    THEN "store_data"
    ELSE "retrieve_context"

RouteAfterRetrievalViaStore(state) ==
    IF StartsWith(state.intent, "generate_controls") THEN "generate_controls"
    ELSE "store_query_embedding"

RouteAfterRetrieval(state) ==
    IF StartsWith(state.intent, "generate_controls") THEN "generate_controls"
    ELSE "synthesize_response"

RouteAfterSelectionToStore(state) ==
    IF state.generated_controls # << >> THEN "store_data"
    ELSE "store_query_embedding"

RouteAfterSelection(state) ==
    IF state.selected_controls # << >> THEN "store_data"
    ELSE "store_query_embedding"

Classified(result) ==
    /\ st' = [st EXCEPT !.intent = result.intent, !.parameters = result.parameters]
    /\ pc' = RouteAfterClassification(st')

\* classify_intent_node: the classifier's result, or the default intent when the
\* call raises; then route_after_classification.
ClassifyIntentNode ==
    /\ pc = "classify_intent"
    /\ visited' = Append(visited, "classify_intent")
    /\ \/ /\ \E result \in ClassifierResults : Classified(result)
          /\ Works
       \/ /\ Classified([intent |-> "query_controls", parameters |-> NoParams])
          /\ Fails
    /\ UNCHANGED <<mongoControls, sessions, graphNodes, graphEdges, vectorRows,
                   nextUuid, job, http, genCalls, resumed, persistLog, nOps,
                   fusion, call>>

\* _retrieve_for_generation
RetrieveForGeneration(state) ==
    LET all_risks == RiskRegister[state.user_id] IN
    IF state.intent = "generate_controls_specific"
    THEN IF GetRiskById(state.parameters.risk_id, state.user_id) = 0
         THEN [kind |-> "error", risks |-> << >>]
         ELSE [kind |-> "generation", risks |-> << >>]
    ELSE IF state.intent = "generate_controls_all"
    THEN [kind |-> "risks_for_generation", risks |-> all_risks]
    ELSE [kind |-> "risks_for_generation",
          risks |-> SelectSeq(all_risks,
                       LAMBDA r : r.category = state.parameters.risk_category)]

\* retrieve_context_for_query, by the kind of context each intent gets
RetrieveForQuery(state) ==
    IF state.intent \in { "show_finalized_controls", "show_controls_by_category",
                          "show_controls_by_annex", "query_controls" }
    THEN [kind |-> state.intent, risks |-> << >>]
    ELSE EmptyContext

\* retrieve_context_node, then route_after_retrieval.  When a store or the
\* embedding call raises: the specific-risk retrieval returns an error context,
\* get_risks_for_generation returns no risks, a query retrieval leaves {}.
\* retrieve_context_for_query embeds the user's query on its first line.
RetrieveContextNode ==
    /\ pc = "retrieve_context"
    /\ visited' = Append(visited, "retrieve_context")
    /\ \/ /\ st' = [st EXCEPT !.retrieved_context =
                       IF StartsWith(st.intent, "generate_controls")
                       THEN RetrieveForGeneration(st) ELSE RetrieveForQuery(st)]
          /\ Works
       \/ /\ st' = [st EXCEPT !.retrieved_context =
                       IF st.intent = "generate_controls_specific"
                       THEN [kind |-> "error", risks |-> << >>]
                       ELSE IF StartsWith(st.intent, "generate_controls")
                       THEN [kind |-> "risks_for_generation", risks |-> << >>]
                       ELSE EmptyContext]
          /\ Fails
    /\ pc' = RouteAfterRetrieval(st)
    /\ call' = IF StartsWith(st.intent, "generate_controls") THEN call
               ELSE [call EXCEPT !.query_embeddings = @ + 1]
    /\ UNCHANGED <<mongoControls, sessions, graphNodes, graphEdges, vectorRows,
                   nextUuid, job, http, genCalls, resumed, persistLog, nOps,
                   fusion>>

RECURSIVE PostProcessKeepingId(_, _, _, _, _)
PostProcessKeepingId(controls, j, risk_id, user_id, n) ==
    IF j > Len(controls) THEN << >>
    ELSE LET raw == controls[j]
             c == Control(raw.id,
                          IF raw.control_id = ""
                          THEN "CTRL-" \o risk_id \o "-" \o Pad3(j)
                          ELSE raw.control_id,
                          risk_id, user_id, raw.annex_reference)
         IN  << c >> \o PostProcessKeepingId(controls, j + 1, risk_id, user_id, n)

\* The fields generate_controls_node guarantees on each control of one completion
\* output: risk_id and user_id set, id generated when absent, control_id
\* synthesised as CTRL-<risk id>-<ordinal within the output> when absent.
RECURSIVE PostProcess(_, _, _, _, _)
PostProcess(controls, j, risk_id, user_id, n) ==
    IF j > Len(controls) THEN << >>
    ELSE LET raw == controls[j]
             fresh == raw.id = ""
             c == Control(IF fresh THEN Uuid(n) ELSE raw.id,
                          IF raw.control_id = ""
                          THEN "CTRL-" \o risk_id \o "-" \o Pad3(j)
                          ELSE raw.control_id,
                          risk_id, user_id, raw.annex_reference)
         IN  << c >> \o PostProcess(controls, j + 1, risk_id, user_id,
                                    IF fresh THEN n + 1 ELSE n)

UuidsDrawn(controls) == Len(SelectSeq(controls, LAMBDA raw : raw.id = ""))

\* risks[:3]
FirstThree(risks) == SubSeq(risks, 1, IF Len(risks) < 3 THEN Len(risks) ELSE 3)

\* generate_controls_node up to its first completion call.
GenerateControlsNode ==
    /\ pc = "generate_controls"
    /\ visited' = Append(visited, "generate_controls")
    /\ LET context == st.retrieved_context
           risk_id == st.parameters.risk_id
           k == GetRiskById(risk_id, st.user_id)
           existing_controls == GetControlsByRisk(mongoControls, risk_id, st.user_id)
       IN
       IF context.kind = "error"
       THEN /\ st' = [st EXCEPT !.final_response = Msg("context_error")]
            /\ pc' = "handle_selection"
            /\ UNCHANGED job
       ELSE IF context.kind = "risks_for_generation"
       THEN IF context.risks = << >>
            THEN /\ st' = [st EXCEPT !.generated_controls = << >>]
                 /\ pc' = "handle_selection"
                 /\ UNCHANGED job
            ELSE /\ job' = [NoJob EXCEPT !.risks = FirstThree(context.risks), !.i = 1]
                 /\ pc' = "generate_for_risk"
                 /\ UNCHANGED st
       ELSE IF existing_controls # << >>
       THEN /\ st' = [st EXCEPT !.final_response =
                         [Msg("already_has_controls") EXCEPT
                             !.count = Len(existing_controls)]]
            /\ pc' = "handle_selection"
            /\ UNCHANGED job
       ELSE IF k = 0
       THEN /\ st' = [st EXCEPT !.generated_controls = << >>]
            /\ pc' = "handle_selection"
            /\ UNCHANGED job
       ELSE /\ job' = [NoJob EXCEPT !.risks = << RiskRegister[st.user_id][k] >>,
                                    !.i = 1]
            /\ pc' = "generate_for_risk"
            /\ UNCHANGED st
    /\ UNCHANGED <<mongoControls, sessions, graphNodes, graphEdges, vectorRows,
                   nextUuid, http, genCalls, resumed, persistLog, nOps, faults,
                   fusion, call>>

GenerateControlsLenient(content) == content.controls

\* OpenAIService.generate_controls after the completion call: json.loads of the
\* content, [] when it cannot be parsed.
GenerateControls(content) ==
    IF content.parsable THEN content.controls ELSE << >>

\* One iteration of the generation loop: the completion call for one risk and the
\* post-processing of its output; a call that raises leaves the node with
\* generated_controls = [].
GenerateForRisk ==
    /\ pc = "generate_for_risk"
    /\ genCalls' = genCalls + 1
    /\ LET risk == job.risks[job.i]
           last == job.i = Len(job.risks)
       IN
       \/ \E content \in CompletionContents :
            LET controls == GenerateControls(content)
                all_controls ==
                    job.all_controls \o
                    PostProcess(controls, 1, risk.id, st.user_id, nextUuid)
            IN  /\ Len(job.all_controls) + Len(controls) <= MaxCands
                /\ Works
                /\ call' = [call EXCEPT !.completion =
                       [risk |-> risk.id,
                        outcome |-> IF content.parsable THEN "parsed"
                                    ELSE "unparsable",
                        before |-> Len(job.all_controls),
                        yielded |-> Len(controls)]]
                /\ nextUuid' = nextUuid + UuidsDrawn(controls)
                /\ IF last
                   THEN /\ st' = [st EXCEPT !.generated_controls = all_controls]
                        /\ job' = NoJob
                        /\ pc' = "handle_selection"
                   ELSE /\ job' = [job EXCEPT !.all_controls = all_controls,
                                              !.i = @ + 1]
                        /\ pc' = "generate_for_risk"
                        /\ UNCHANGED st
       \/ /\ st' = [st EXCEPT !.generated_controls = << >>]
          /\ job' = NoJob
          /\ pc' = "handle_selection"
          /\ call' = [call EXCEPT !.completion =
                 [risk |-> risk.id, outcome |-> "raised",
                  before |-> Len(job.all_controls), yielded |-> 0]]
          /\ UNCHANGED nextUuid
          /\ Fails
    /\ UNCHANGED <<mongoControls, sessions, graphNodes, graphEdges, vectorRows,
                   http, visited, resumed, persistLog, nOps,
                   fusion>>

\* handle_selection_node, then route_after_selection.  The session document holds
\* dict(state) as it is before session_id is assigned.
HandleSelectionNode ==
    /\ pc = "handle_selection"
    /\ visited' = Append(visited, "handle_selection")
    /\ IF st.generated_controls # << >>
       THEN LET pending == [st EXCEPT !.pending_selection = TRUE]
                session_id == Uuid(nextUuid)
            IN  \/ /\ sessions' = sessions @@
                         (session_id :>
                            [user_id |-> st.user_id,
                             generated_controls |-> st.generated_controls,
                             state |-> pending, controls_stored |-> FALSE,
                             stored_control_ids |-> << >>])
                   /\ nextUuid' = nextUuid + 1
                   /\ st' = [pending EXCEPT !.session_id = session_id]
                   /\ Works
                \/ /\ st' = [pending EXCEPT !.session_id = ""]
                   /\ UNCHANGED <<sessions, nextUuid>>
                   /\ Fails
       ELSE /\ st' = [st EXCEPT !.pending_selection = FALSE]
            /\ UNCHANGED <<sessions, nextUuid, faults>>
    /\ pc' = RouteAfterSelection(st)
    /\ UNCHANGED <<mongoControls, graphNodes, graphEdges, vectorRows, job, http,
                   genCalls, resumed, persistLog, nOps,
                   fusion, call>>

\* store_data_node up to its first store write (lines 525-585).
StoreDataNode ==
    /\ pc = "store_data"
    /\ visited' = Append(visited, "store_data")
    /\ LET controls_to_store ==
               ControlsToStore(st.generated_controls, st.selected_controls)
           j == StartJob("workflow", st.session_id, st.selected_controls,
                         st.generated_controls, controls_to_store)
       IN  IF st.selected_controls = << >>
           THEN /\ st' = [st EXCEPT !.final_response = Msg("none_selected")]
                /\ pc' = "store_query_embedding"
                /\ UNCHANGED <<job, persistLog>>
           ELSE IF controls_to_store = << >>
           THEN /\ st' = [st EXCEPT !.final_response = NotFoundMsg]
                /\ pc' = "store_query_embedding"
                /\ persistLog' = Append(persistLog, LogEntry(j, FALSE, NotFoundMsg))
                /\ UNCHANGED job
           ELSE /\ job' = j
                /\ pc' = "save_controls"
                /\ UNCHANGED <<st, persistLog>>
    /\ UNCHANGED <<mongoControls, sessions, graphNodes, graphEdges, vectorRows,
                   nextUuid, http, genCalls, resumed, nOps, faults,
                   fusion, call>>

\* store_query_embedding_node: rag.store_query_embedding embeds the user's
\* query and writes it to query_embeddings; the node catches its own failures
\* and changes no field of the state.
StoreQueryEmbeddingNode ==
    /\ pc = "store_query_embedding"
    /\ visited' = Append(visited, "store_query_embedding")
    /\ pc' = "synthesize_response"
    /\ call' = [call EXCEPT !.query_embeddings = @ + 1]
    /\ UNCHANGED <<mongoControls, sessions, graphNodes, graphEdges, vectorRows,
                   nextUuid, st, job, http, genCalls, resumed, persistLog, nOps, faults,
                   fusion>>

\* chat_with_agent, lines 29-68: the generated controls the response lists,
\* those with every required field present and non-empty.
ValidatedControls(generated_controls) ==
    SelectSeq(generated_controls,
              LAMBDA control : /\ control.control_id # ""
                               /\ control.annex_reference # ""
                               /\ control.risk_id # ""
                               /\ control.user_id # "")

\* synthesize_response_node: a final_response already set is kept; otherwise one
\* is written from the context, or the apology when the completion calls fail.
\* The caller then builds its response from the result.
SynthesizeResponseNode ==
    /\ pc = "synthesize_response"
    /\ visited' = Append(visited, "synthesize_response")
    /\ \/ /\ st.final_response # NoMsg
          /\ UNCHANGED <<st, faults>>
       \/ /\ st.final_response = NoMsg
          /\ st' = [st EXCEPT !.final_response = Msg("synthesized")]
          /\ Works
       \/ /\ st.final_response = NoMsg
          /\ st' = [st EXCEPT !.final_response = Msg("apology")]
          /\ Fails
    /\ pc' = "idle"
    /\ call' = [call EXCEPT !.controls = ValidatedControls(st.generated_controls)]
    /\ UNCHANGED <<mongoControls, sessions, graphNodes, graphEdges, vectorRows,
                   nextUuid, job, http, genCalls, resumed, persistLog, nOps,
                   fusion>>

-----------------------------------------------------------------------------
(* The system *)

SessionIdInputs == DOMAIN sessions \cup {"", "no-such-session"}

Next ==
    \/ \E u \in Users, sel \in Selections, sid \in SessionIdInputs : Run(u, sel, sid)
    \/ ClassifyIntentNode
    \/ RetrieveContextNode
    \/ GenerateControlsNode
    \/ GenerateForRisk
    \/ HandleSelectionNode
    \/ StoreDataNode
    \/ StoreQueryEmbeddingNode
    \/ SynthesizeResponseNode
    \/ \E u \in Users, sel \in Selections, sid \in SessionIdInputs \ {""} :
          SelectControls(u, sid, sel)
    \/ SaveControlsStep
    \/ CreateControlNodeStep
    \/ StoreControlEmbeddingStep
    \/ FinishPersist

Spec == Init /\ [][Next]_vars

-----------------------------------------------------------------------------
(* General control queries over stores that hold confirmed controls *)

\* The k-th confirmed control of alice; the first two cite corpus entries.
StoredControl(k) ==
    Control("id-" \o ToString(k), "CTRL-" \o Pad3(k), "risk_001", "alice",
            IF k = 1 THEN "A.5.1" ELSE IF k = 2 THEN "A.8.5" ELSE "A.5.15")

\* mongo.save_controls(controls) on docs, the n-th uuid4 being the next one
RECURSIVE SaveControls(_, _, _)
SaveControls(docs, controls, n) ==
    IF controls = << >> THEN docs
    ELSE SaveControls(InsertControl(docs, Head(controls), n), Tail(controls), n + 1)

\* rag.store_control_embeddings(controls) on rows
RECURSIVE StoreControlEmbeddings(_, _)
StoreControlEmbeddings(rows, controls) ==
    IF controls = << >> THEN rows
    ELSE StoreControlEmbeddings(UpsertControlEmbedding(rows, Head(controls)),
                                Tail(controls))

\* The stores after n controls were persisted, the first of them a second time
\* when again holds; no request is in flight.
InitFuse ==
    \E n \in 0..MaxStored, again \in BOOLEAN :
        LET first == [k \in 1..n |-> StoredControl(k)]
            second == IF again /\ n > 0 THEN << StoredControl(1) >> ELSE << >>
        IN  /\ again => n > 0
            /\ mongoControls = SaveControls(SaveControls(<< >>, first, 0), second, n)
            /\ vectorRows = StoreControlEmbeddings(
                                StoreControlEmbeddings(<< >>, first), second)
            /\ nextUuid = n + Len(second)
            /\ sessions = [s \in {} |-> << >>]
            /\ graphNodes = << [label |-> "User", id |-> "alice"] >>
            /\ graphEdges = << >>
            /\ pc = "idle"
            /\ st = InitialState("")
            /\ job = NoJob
            /\ http = NoHttp
            /\ visited = << >>
            /\ genCalls = 0
            /\ resumed = ""
            /\ persistLog = << >>
            /\ nOps = [run |-> 0, select |-> 0]
            /\ faults = 0
            /\ fusion = NoFusion
    /\ call = NoCall

notFusion == <<mongoControls, sessions, graphNodes, graphEdges, vectorRows, nextUuid,
               pc, st, job, http, visited, genCalls, resumed, persistLog, nOps,
               faults, call>>

\* _get_general_query_context, steps 1-5: the four searches of one query
SearchSources ==
    /\ fusion.stage = "idle"
    /\ \E user_id \in Users,
          score \in [{ vectorRows[i].control_id : i \in DOMAIN vectorRows } -> Scores],
          matched \in SUBSET { AnnexData[i].reference : i \in DOMAIN AnnexData } :
          \E similar_controls \in SearchSimilarControls(vectorRows, score) :
             fusion' = [fusion EXCEPT
                 !.stage = "searched",
                 !.user_id = user_id,
                 !.existing_controls =
                     SearchExistingControlsByQuery(mongoControls, user_id, score),
                 !.text_search_controls =
                     SearchExistingControlsByText(mongoControls, user_id),
                 !.similar_controls = similar_controls,
                 !.combined_iso_guidance = CombinedIsoGuidance(matched)]
    /\ UNCHANGED notFusion

\* _get_general_query_context, step 6
FuseSources ==
    /\ fusion.stage = "searched"
    /\ LET all_controls ==
               GetGeneralQueryContext(fusion.existing_controls,
                                      fusion.text_search_controls,
                                      fusion.similar_controls,
                                      fusion.combined_iso_guidance)
       IN  fusion' = [fusion EXCEPT
               !.stage = "fused",
               !.all_controls = all_controls,
               !.annex_data = TagAnnexData(@, all_controls)]
    /\ UNCHANGED notFusion

\* generate_general_controls_response on the fused context
GenerateGeneralControlsResponse ==
    /\ fusion.stage = "fused"
    /\ fusion' = [fusion EXCEPT
           !.stage = "responded",
           !.high_relevance_controls = HighRelevanceControls(fusion.all_controls)]
    /\ UNCHANGED notFusion

NextFuse == SearchSources \/ FuseSources \/ GenerateGeneralControlsResponse

SpecFuse == InitFuse /\ [][NextFuse]_vars

-----------------------------------------------------------------------------
(* retrieve_context_for_query for a general control query, with the calls   *)
(* that can fail: app/rag_service.py lines 64-76 and 237-362                *)

\* The query texts of a request: the empty string and a non-empty one.
Queries == {"", "q"}

\* The calls of one fusion that reach a service: the embedding of the query,
\* the lookup in control_embeddings, the search over the user's documents.
FusionCalls == {"embedding", "vector_search", "existing_user_controls"}

\* combined_iso_guidance of a query: search_annex_controls only runs when
\* query_text is non-empty, otherwise get_annex_controls(limit=5) is used.
IsoGuidanceFor(query_text, matched) ==
    IF query_text # "" THEN CombinedIsoGuidance(matched) ELSE CombinedIsoGuidance({})

\* retrieve_context_for_query, line 65: query_embedding =
\* self.openai.get_embedding(query), called for every query text and outside
\* any try block; when it raises, the exception leaves the function and
\* retrieve_context_node stores {} as the context.
GetQueryEmbedding ==
    /\ fusion.stage = "idle"
    /\ \E query \in Queries, user_id \in Users,
          matched \in SUBSET { AnnexData[i].reference : i \in DOMAIN AnnexData },
          raises \in BOOLEAN :
          fusion' = [fusion EXCEPT
              !.stage = IF raises THEN "retrieved" ELSE "embedded",
              !.query = query,
              !.user_id = user_id,
              !.matched = matched,
              !.embedding_calls = @ + 1,
              !.raised = raises,
              !.failed = IF raises THEN {"embedding"} ELSE {}]
    /\ UNCHANGED notFusion

\* _get_general_query_context with the embedding: search_similar_controls and
\* _search_existing_controls_by_query catch their own exceptions and return [],
\* the text search is skipped for an empty query_text, the corpus is read from
\* memory; then the lists are merged.
GeneralQueryContext ==
    /\ fusion.stage = "embedded"
    /\ \E score \in [{ vectorRows[i].control_id : i \in DOMAIN vectorRows } -> Scores],
          failed \in SUBSET (FusionCalls \ {"embedding"}) :
          \E found \in SearchSimilarControls(vectorRows, score) :
             LET similar_controls ==
                     IF "vector_search" \in failed THEN << >> ELSE found
                 existing_controls ==
                     IF "existing_user_controls" \in failed THEN << >>
                     ELSE SearchExistingControlsByQuery(mongoControls, fusion.user_id,
                                                        score)
                 text_search_controls ==
                     IF fusion.query # ""
                     THEN SearchExistingControlsByText(mongoControls, fusion.user_id)
                     ELSE << >>
                 combined_iso_guidance == IsoGuidanceFor(fusion.query, fusion.matched)
                 all_controls ==
                     GetGeneralQueryContext(existing_controls, text_search_controls,
                                            similar_controls, combined_iso_guidance)
             IN  fusion' = [fusion EXCEPT
                     !.stage = "retrieved",
                     !.failed = failed,
                     !.vector_lookups = @ + 1,
                     !.existing_controls = existing_controls,
                     !.text_search_controls = text_search_controls,
                     !.similar_controls = similar_controls,
                     !.combined_iso_guidance = combined_iso_guidance,
                     !.all_controls = all_controls,
                     !.annex_data = TagAnnexData(@, all_controls)]
    /\ UNCHANGED notFusion

NextQuery == GetQueryEmbedding \/ GeneralQueryContext

SpecQuery == InitFuse /\ [][NextQuery]_vars

-----------------------------------------------------------------------------
(* A persistence operation over graphs that hold or lack the User and Risk  *)
(* nodes: app/langgraph_agent.py lines 586-645, app/neo4j_db.py,            *)
(* app/routers/auth.py                                                      *)

\* The nodes signup and the risk endpoints may have left in the graph:
\* create_user_node and create_risk_node report a failure without undoing the
\* document-store write, so either node of a user or risk may be missing.
GraphsBefore ==
    { SelectSeq(<< [label |-> "User", id |-> "alice"],
                   [label |-> "User", id |-> "bob"],
                   [label |-> "Risk", id |-> "risk_001"],
                   [label |-> "Risk", id |-> "risk_002"] >>,
                LAMBDA n : n \in present) :
        present \in SUBSET { [label |-> "User", id |-> "alice"],
                             [label |-> "User", id |-> "bob"],
                             [label |-> "Risk", id |-> "risk_001"],
                             [label |-> "Risk", id |-> "risk_002"] } }

\* The controls a selection resolved to: one or two of a user's candidates.
ControlsForGraph ==
    LET cand(k, u, r) == [StoredControl(k) EXCEPT !.user_id = u, !.risk_id = r]
        one == { << cand(1, u, r) >> : u \in Users, r \in {"risk_001", "risk_002"} }
    IN  one \cup { << cand(1, u, "risk_001"), cand(2, u, r) >> :
                     u \in Users, r \in {"risk_001", "risk_002"} }

\* store_data_node has resolved the selection to controls_to_store and is
\* about to save them.
InitGraph ==
    \E nodes \in GraphsBefore, controls \in ControlsForGraph :
        /\ graphNodes = nodes
        /\ graphEdges = << >>
        /\ mongoControls = << >>
        /\ nextUuid = 0
        /\ job = StartJob("workflow", "", [i \in DOMAIN controls |-> controls[i].id],
                          controls, controls)
        /\ pc = "save_controls"
        /\ sessions = [s \in {} |-> << >>]
        /\ vectorRows = << >>
        /\ st = InitialState(controls[1].user_id)
        /\ http = NoHttp
        /\ visited = << "classify_intent", "store_data" >>
        /\ genCalls = 0
        /\ resumed = ""
        /\ persistLog = << >>
        /\ nOps = [run |-> 1, select |-> 0]
        /\ faults = 0
        /\ fusion = NoFusion
        /\ call = NoCall

NextGraph ==
    \/ SaveControlsStep
    \/ CreateControlNodeStep
    \/ StoreControlEmbeddingStep
    \/ FinishPersist

SpecGraph == InitGraph /\ [][NextGraph]_vars

-----------------------------------------------------------------------------
(* Properties *)

\* C1 (resumption safety): while a run() call that resumes an existing session
\* with candidates and carries a selection is in progress, the Generation Step
\* has made no completion call and the workflow has not entered
\* generate_controls.
ResumptionSafety ==
    resumed # "" => /\ genCalls = 0
                    /\ "generate_controls" \notin Range(visited)

\* The persistence operations that wrote a document for session sid.
ResolvedBy(sid) ==
    { k \in DOMAIN persistLog :
        persistLog[k].sid = sid /\ persistLog[k].doc_ids # << >> }

\* C2 (at-most-once resolution): of the requests that resume one session, at
\* most one writes candidates of it to the document store.
AtMostOnceResolution ==
    \A sid \in DOMAIN sessions : Cardinality(ResolvedBy(sid)) <= 1

Count(seq, x) == Cardinality({ i \in DOMAIN seq : seq[i] = x })

\* The persistence operations that wrote control c once to each of the three
\* stores and met no failure.
CleanPersists(c) ==
    { k \in DOMAIN persistLog :
        LET e == persistLog[k]
        IN  /\ Count(e.controls, c) = 1
            /\ ~e.mongo_failed /\ e.graph_failed = 0
            /\ Count(e.doc_ids, c.id) = 1
            /\ Count(e.graph_ids, c.id) = 1
            /\ Count(e.vector_ids, c.id) = 1 }

\* C3 (idempotent persistence): a control persisted by two persistence
\* operations has exactly one document, one Control node with one MITIGATES and
\* one SELECTED_CONTROL edge, and one vector row.
IdempotentPersistence ==
    \A k \in DOMAIN persistLog : \A c \in Range(persistLog[k].controls) :
        Cardinality(CleanPersists(c)) >= 2 =>
            /\ Cardinality({ i \in DOMAIN mongoControls :
                               mongoControls[i].id = c.id }) = 1
            /\ Count(graphNodes, [label |-> "Control", id |-> c.id]) = 1
            /\ Count(graphEdges, [type |-> "MITIGATES", from |-> c.id,
                                  to |-> c.risk_id]) = 1
            /\ Count(graphEdges, [type |-> "SELECTED_CONTROL", from |-> c.user_id,
                                  to |-> c.id]) = 1
            /\ Cardinality({ i \in DOMAIN vectorRows :
                               vectorRows[i].control_id = c.id }) = 1

Fused == fusion.stage \in {"fused", "responded"}

\* What the four result lists of the query stand for.
SourcedOf ==
    { fusion.existing_controls[i].of : i \in DOMAIN fusion.existing_controls }
    \cup { fusion.text_search_controls[i].of : i \in DOMAIN fusion.text_search_controls }
    \cup { fusion.similar_controls[i].of : i \in DOMAIN fusion.similar_controls }
    \cup { fusion.combined_iso_guidance[i].of : i \in DOMAIN fusion.combined_iso_guidance }

\* C4 (dedup correctness): the merged list holds each stored control (by its
\* locally-generated identifier) and each corpus entry (by its reference code)
\* that a source returned exactly once.
DedupCorrectness ==
    Fused =>
        LET all_controls == fusion.all_controls
        IN  /\ \A i, j \in DOMAIN all_controls :
                  all_controls[i].of = all_controls[j].of => i = j
            /\ \A x \in SourcedOf :
                  \E i \in DOMAIN all_controls : all_controls[i].of = x

Rank(source) ==
    CASE source = "existing_user_controls" -> 1
      [] source = "text_search" -> 2
      [] source = "vector_search" -> 3
      [] OTHER -> 4

\* C5 (priority ordering): the merged list is ordered by source priority, and a
\* reference code that an existing-user-control item carries has no
\* reference-corpus item of its own in the list.
PriorityOrdering ==
    Fused =>
        LET all_controls == fusion.all_controls
        IN  /\ \A i, j \in DOMAIN all_controls :
                  i < j => Rank(all_controls[i].source) <= Rank(all_controls[j].source)
            /\ \A i, j \in DOMAIN all_controls :
                  /\ all_controls[i].source = "existing_user_controls"
                  /\ all_controls[j].source = "iso_guidance"
                  => all_controls[i].annex_reference # all_controls[j].reference

Surfaced(control) ==
    \E i \in DOMAIN fusion.high_relevance_controls :
        fusion.high_relevance_controls[i] = control

FirstWith(cands, field, x) ==
    IF \E i \in DOMAIN cands : cands[i][field] = x
    THEN CHOOSE i \in DOMAIN cands :
            /\ cands[i][field] = x
            /\ \A j \in 1..(i - 1) : cands[j][field] # x
    ELSE 0

\* The candidate an identifier stands for: by locally-generated identifier if
\* some candidate has it, otherwise by control code.
Resolved(cands, x) ==
    IF FirstWith(cands, "id", x) # 0 THEN FirstWith(cands, "id", x)
    ELSE FirstWith(cands, "control_id", x)

ResolvedControls(cands, sel) ==
    LET hits == SelectSeq(sel, LAMBDA x : Resolved(cands, x) # 0)
    IN  [i \in DOMAIN hits |-> cands[Resolved(cands, hits[i])]]

\* C7 (selection resolution): the controls a persistence operation works on are,
\* for each selected identifier in order, the candidate with that
\* locally-generated identifier, else the first candidate with that control
\* code; an identifier equal to neither contributes nothing, and only resolved
\* candidates are written.
SelectionResolution ==
    /\ \A k \in DOMAIN persistLog :
          LET e == persistLog[k]
          IN  /\ e.controls = ResolvedControls(e.cands, e.sel)
              /\ Range(e.doc_ids) \subseteq { c.id : c \in Range(e.controls) }
    /\ job.via # "" => job.controls = ResolvedControls(job.cands, job.sel)

CandidateIds(e) == [i \in DOMAIN e.cands |-> << e.cands[i].id, e.cands[i].control_id >>]

\* With candidates id-1/CTRL-001 and id-2/CTRL-002, one request selected
\* [CTRL-001] and persisted exactly the first candidate, another selected
\* [id-9999] and persisted nothing.
SelectionResolutionWitness ==
    \E k, l \in DOMAIN persistLog :
        LET e == persistLog[k]
            f == persistLog[l]
        IN  /\ CandidateIds(e) = << <<"id-1", "CTRL-001">>, <<"id-2", "CTRL-002">> >>
            /\ e.sel = << "CTRL-001" >>
            /\ e.controls = << e.cands[1] >>
            /\ e.doc_ids = << "id-1" >>
            /\ f.cands = e.cands
            /\ f.sel = << "id-9999" >>
            /\ f.controls = << >>
            /\ f.doc_ids = << >>

\* C8 (unresolved identifiers are reported): a persistence operation none of
\* whose identifiers resolves writes nothing and answers not-found; one that
\* persists some controls names every identifier that resolved to no candidate
\* in its response.
UnresolvedReported ==
    \A k \in DOMAIN persistLog :
        LET e == persistLog[k]
            unresolved == { x \in Range(e.sel) : Resolved(e.cands, x) = 0 }
        IN  IF e.controls = << >>
            THEN /\ e.msg = NotFoundMsg
                 /\ e.doc_ids = << >> /\ e.graph_ids = << >> /\ e.vector_ids = << >>
            ELSE ~e.mongo_failed => unresolved \subseteq e.msg.unresolved

\* C9 (partial-failure reporting): a persistence operation whose document
\* writes all succeeded states that number of controls, flags the number of
\* graph writes that failed, and does not state that graph relationships were
\* established when one failed.
PartialFailureReporting ==
    \A k \in DOMAIN persistLog :
        LET e == persistLog[k]
        IN  (~e.mongo_failed /\ e.controls # << >>) =>
                /\ e.msg.count = Len(e.doc_ids)
                /\ e.msg.graph_failures = e.graph_failed
                /\ e.graph_failed > 0 => ~e.msg.graph_established

HasDocument(id) == \E d \in DOMAIN mongoControls : mongoControls[d].id = id

\* C10 (the document store is authoritative): every Control node and every
\* vector row is of a control that has a document; persistence writes no graph
\* node or vector row before all its documents and no vector row before its
\* graph writes; an operation whose document write failed wrote nothing to the
\* graph and vector stores and answered with the failure.
DocumentStoreAuthoritative ==
    /\ \A i \in DOMAIN graphNodes :
          graphNodes[i].label = "Control" => HasDocument(graphNodes[i].id)
    /\ \A i \in DOMAIN vectorRows : HasDocument(vectorRows[i].control_id)
    /\ pc = "save_controls" => job.graph_ids = << >> /\ job.vector_ids = << >>
    /\ pc = "create_control_node" =>
          /\ job.vector_ids = << >>
          /\ job.doc_ids = [i \in DOMAIN job.controls |-> job.controls[i].id]
    /\ \A k \in DOMAIN persistLog :
          LET e == persistLog[k]
          IN  e.mongo_failed =>
                  /\ e.graph_ids = << >> /\ e.vector_ids = << >>
                  /\ e.msg.kind = "save_failed"

\* One persistence operation wrote a Control node and a vector row, another
\* ended on a failed document write.
DocumentStoreAuthoritativeWitness ==
    /\ \E i \in DOMAIN graphNodes : graphNodes[i].label = "Control"
    /\ vectorRows # << >>
    /\ \E k \in DOMAIN persistLog : persistLog[k].mongo_failed

Retrieved == fusion.stage = "retrieved"

\* The entries of the merged list that carry the given source tag.
TaggedAs(source) ==
    { i \in DOMAIN fusion.all_controls : fusion.all_controls[i].source = source }

\* Every corpus entry that is retrievable for the query is in the merged list.
CorpusItemsKept ==
    LET retrievable == IsoGuidanceFor(fusion.query, fusion.matched)
    IN  \A i \in DOMAIN retrievable :
            \E j \in DOMAIN fusion.all_controls :
                fusion.all_controls[j].of = retrievable[i].of

\* C11 (degradation on an empty query): a fusion of the empty query string
\* does not raise, computes no embedding and makes no vector lookup; its
\* context has no vector-sourced item and holds the retrievable corpus entries.
DegradationOnEmptyQuery ==
    (Retrieved /\ fusion.query = "") =>
        /\ ~fusion.raised
        /\ fusion.embedding_calls = 0
        /\ fusion.vector_lookups = 0
        /\ TaggedAs("vector_search") = {}
        /\ CorpusItemsKept

\* C12 (per-source fault isolation): whichever calls of a fusion fail, the
\* fusion does not raise, a source that failed contributes nothing, and the
\* merged list holds the items of the sources that did not fail: the
\* retrievable corpus entries always, and every control the vector lookup or
\* the search over the user's documents returned.
PerSourceFaultIsolation ==
    Retrieved =>
        /\ ~fusion.raised
        /\ CorpusItemsKept
        /\ "vector_search" \in fusion.failed => TaggedAs("vector_search") = {}
        /\ "existing_user_controls" \in fusion.failed =>
               TaggedAs("existing_user_controls") = {}
        /\ \A x \in SourcedOf :
               \E j \in DOMAIN fusion.all_controls : fusion.all_controls[j].of = x

\* C13 (a session is created even with zero candidates): once an invocation
\* that entered generate_controls has passed handle_selection with no
\* candidate, its state carries a non-empty session identifier that names a
\* stored session with an empty candidate set.
SessionCreatedWithoutCandidates ==
    (/\ "generate_controls" \in Range(visited)
     /\ "handle_selection" \in Range(visited)
     /\ st.generated_controls = << >>) =>
        /\ st.session_id # ""
        /\ st.session_id \in DOMAIN sessions
        /\ sessions[st.session_id].generated_controls = << >>

PersistencePcs ==
    { "store_data", "save_controls", "create_control_node",
      "store_control_embeddings", "finish_persist" }

\* C14 (no selection, no persistence): a run() call that carries no selection
\* never enters store_data or the persistence code, leaves the document, graph
\* and vector stores as they were when it started, and goes from
\* handle_selection to store_query_embedding and synthesize_response.
NoSelectionNoPersistence ==
    (call.via = "run" /\ ~call.selection) =>
        /\ StoreSizes = call.before
        /\ "store_data" \notin Range(visited)
        /\ pc \notin PersistencePcs
        /\ "handle_selection" \in Range(visited) =>
               pc \in { "store_query_embedding", "synthesize_response", "idle" }

\* A call without selection generated candidates, saved them in a session and
\* returned, while the stores hold confirmed controls of an earlier request.
NoSelectionNoPersistenceWitness ==
    /\ call.via = "run" /\ ~call.selection
    /\ pc = "idle"
    /\ "synthesize_response" \in Range(visited)
    /\ st.pending_selection
    /\ st.session_id \in DOMAIN sessions
    /\ sessions[st.session_id].generated_controls = st.generated_controls
    /\ mongoControls # << >>

\* C16 (unknown session is a distinct not-found outcome): a request that
\* carries a selection and a session identifier naming no stored session
\* writes nothing to the stores, enters no workflow node, and answers with the
\* session-not-found message.
UnknownSessionNotFound ==
    (call.selection /\ call.session = "unknown") =>
        /\ StoreSizes = call.before
        /\ visited = << >>
        /\ pc = "idle"
        /\ IF call.via = "run" THEN st.final_response.kind = "session_not_found"
           ELSE http.msg.kind = "session_not_found"

\* C15 (every invocation returns a result): a run() call does not raise; when
\* it has returned, the workflow went through synthesize_response last and the
\* result carries a final response, also after store_data; no node is entered
\* twice in one invocation.
WorkflowReturnsResult ==
    call.via = "run" =>
        /\ ~call.raised
        /\ \A i, j \in DOMAIN visited : visited[i] = visited[j] => i = j
        /\ pc = "idle" =>
               /\ visited # << >>
               /\ visited[Len(visited)] = "synthesize_response"
               /\ st.final_response # NoMsg

\* C17 (identifier consistency): for every control a finished persistence
\* operation wrote to all three stores, the key of its document, the id of its
\* Control node and the key of its vector row are the candidate's
\* locally-generated identifier; and the identifiers save_controls returns to
\* the persistence code are the identifiers of the controls it stored.
IdentifierConsistency ==
    /\ \A k \in DOMAIN persistLog :
          LET e == persistLog[k]
          IN  \A c \in Range(e.controls) :
                  (/\ c.id \in Range(e.doc_ids)
                   /\ c.id \in Range(e.graph_ids)
                   /\ c.id \in Range(e.vector_ids)) =>
                      /\ \E i \in DOMAIN mongoControls : mongoControls[i]._id = c.id
                      /\ HasNode(graphNodes, "Control", c.id)
                      /\ \E i \in DOMAIN vectorRows : vectorRows[i].control_id = c.id
    /\ job.saved_control_ids = job.doc_ids

\* A control with its reference code, control code, risk linkage and user
\* linkage present.
Complete(control) ==
    /\ control.control_id # "" /\ control.annex_reference # ""
    /\ control.risk_id # "" /\ control.user_id # ""

\* C18 (incomplete candidates are dropped before they are offered): every
\* control in the list returned to the user, every candidate in a session's
\* selectable set and every control a persistence operation works on has all
\* its required fields.
IncompleteCandidatesDropped ==
    /\ \A i \in DOMAIN call.controls : Complete(call.controls[i])
    /\ \A sid \in DOMAIN sessions :
          \A i \in DOMAIN sessions[sid].generated_controls :
              Complete(sessions[sid].generated_controls[i])
    /\ \A k \in DOMAIN persistLog :
          \A c \in Range(persistLog[k].controls) : Complete(c)
    /\ \A i \in DOMAIN mongoControls : mongoControls[i].annex_reference # ""

DirectStorage ==
    /\ st.intent = "store_selected_controls"
    /\ st.generated_controls # << >>
    /\ st.selected_controls # << >>

OwnControlCodes ==
    UNION { { out[i].control_id : i \in DOMAIN out } : out \in CompletionOutputs }
        \ {""}

\* The ordinal of the i-th candidate among the candidates of its risk.
OrdinalWithinRisk(cands, i) ==
    Cardinality({ j \in 1..i : cands[j].risk_id = cands[i].risk_id })

\* C21 (post-processing guarantees): every candidate the Generation Step put
\* in the workflow state has a non-empty id, a non-empty control code that is
\* the completion's own or CTRL-<risk id>-<three-digit ordinal within the
\* risk>, the identifier of a risk of the register as risk linkage and the
\* requesting user as user linkage.
PostProcessingGuarantees ==
    (pc = "handle_selection" /\ genCalls > 0) =>
        \A i \in DOMAIN st.generated_controls :
            LET c == st.generated_controls[i]
            IN  /\ c.id # ""
                /\ c.control_id # ""
                /\ \/ c.control_id \in OwnControlCodes
                   \/ c.control_id = "CTRL-" \o c.risk_id \o "-" \o
                          Pad3(OrdinalWithinRisk(st.generated_controls, i))
                /\ c.risk_id # ""
                /\ GetRiskById(c.risk_id, st.user_id) # 0
                /\ c.user_id = st.user_id

\* The Generation Step produced a candidate for which the completion gave
\* neither id nor control code.
PostProcessingGuaranteesWitness ==
    /\ pc = "handle_selection"
    /\ genCalls > 0
    /\ \E i \in DOMAIN st.generated_controls :
          /\ st.generated_controls[i].id \in { Uuid(n) : n \in 0..nextUuid }
          /\ st.generated_controls[i].control_id = "CTRL-risk_001-001"

\* C22 (one completion call per risk): while the generation loop runs, the
\* completion service has been called once for each risk already processed;
\* every iteration makes one call and then moves on to the next risk or leaves
\* the loop for handle_selection; an output that cannot be parsed yields zero
\* candidates for its risk and raises nothing.
OneCompletionPerRisk ==
    /\ [](pc = "generate_for_risk" =>
             /\ job.i <= Len(job.risks)
             /\ genCalls = job.i - 1)
    /\ [](call.completion.outcome = "unparsable" =>
             /\ call.completion.yielded = 0
             /\ ~call.raised)
    /\ [][GenerateForRisk =>
              /\ genCalls' = genCalls + 1
              /\ pc' \in { "generate_for_risk", "handle_selection" }
              /\ pc' = "generate_for_risk" =>
                     /\ job'.i = job.i + 1
                     /\ job'.risks = job.risks]_vars

\* The output for the first of several risks could not be parsed and the loop
\* went on to the second risk.
OneCompletionPerRiskWitness ==
    /\ pc = "generate_for_risk"
    /\ job.i = 2
    /\ genCalls = 1
    /\ call.completion.outcome = "unparsable"
    /\ job.all_controls = << >>

\* C30 (a failure for a later risk keeps the earlier candidates): when the
\* generation loop ends on a failing iteration, the workflow state holds the
\* candidates generated for the risks before it.
EarlierCandidatesKept ==
    (pc = "handle_selection" /\ call.completion.outcome = "raised") =>
        Len(st.generated_controls) = call.completion.before

\* C23 (generate-for-all skips risks that have controls): while the generation
\* loop runs for the intent generate_controls_all, no risk it was given has a
\* control of the user in the document store.
OnlyRisksWithoutControls ==
    (pc = "generate_for_risk" /\ st.intent = "generate_controls_all") =>
        \A i \in DOMAIN job.risks :
            GetControlsByRisk(mongoControls, job.risks[i].id, st.user_id) = << >>

\* C24 (a successful graph write is complete): for every control whose graph
\* write reported success, the graph holds its Control node, a Risk node for
\* its risk, a MITIGATES edge from the control to the risk and a
\* SELECTED_CONTROL edge from its user to the control.
GraphWriteComplete ==
    \A i \in DOMAIN job.controls :
        LET c == job.controls[i]
        IN  c.id \in Range(job.graph_ids) =>
                /\ HasNode(graphNodes, "Control", c.id)
                /\ HasNode(graphNodes, "Risk", c.risk_id)
                /\ Count(graphEdges, [type |-> "MITIGATES", from |-> c.id,
                                      to |-> c.risk_id]) = 1
                /\ Count(graphEdges, [type |-> "SELECTED_CONTROL",
                                      from |-> c.user_id, to |-> c.id]) = 1

\* C25 (graph and vector failures are per-control and non-fatal): once the
\* documents of a non-empty selection are saved, the response is the success message, every control has
\* its document, the graph write of every control was made, and the success
\* response is built only after the vector write of every control was made
\* (job.i is the position of the control whose vector write was last begun, or
\* one more when the last write returned).
PerControlFailures ==
    /\ \A k \in DOMAIN persistLog :
          LET e == persistLog[k]
          IN  (~e.mongo_failed /\ e.controls # << >>) =>
                  /\ e.msg = SavedMsg(Len(e.controls))
                  /\ \A i \in DOMAIN e.controls : HasDocument(e.controls[i].id)
                  /\ Len(e.graph_ids) + e.graph_failed = Len(e.controls)
    /\ pc = "finish_persist" => job.i >= Len(job.controls)

\* C26 (a candidate named twice is persisted once): a persistence operation
\* that saved its documents wrote no control twice and reports as many stored
\* controls as distinct candidates were selected.
DuplicateSelectionOnce ==
    \A k \in DOMAIN persistLog :
        LET e == persistLog[k]
        IN  (~e.mongo_failed /\ e.controls # << >>) =>
                /\ \A i, j \in DOMAIN e.doc_ids : e.doc_ids[i] = e.doc_ids[j] => i = j
                /\ e.msg.count = Cardinality({ e.controls[i].id : i \in DOMAIN e.controls })

\* C27 (a pending selection names a stored session): whenever the result of a
\* run() call has pending_selection set, its session_id is non-empty and names
\* a stored session whose candidates are the candidates of the result.
PendingSelectionHasSession ==
    (call.via = "run" /\ ~call.raised /\ pc = "idle" /\ st.pending_selection) =>
        /\ st.session_id # ""
        /\ st.session_id \in DOMAIN sessions
        /\ sessions[st.session_id].generated_controls = st.generated_controls

\* C28 (a selection is applied only to the requester's own session): a
\* /select-controls request of user u that starts a persistence operation names
\* a session owned by u and persists only controls of u; and a persistence
\* operation started by a resumed run() call names a session owned by the
\* calling user and persists only that user's controls.
OwnSessionOnly ==
    /\ [][\A u \in Users, sid \in SessionIdInputs, sel \in Selections :
             (SelectControls(u, sid, sel) /\ pc' = "save_controls") =>
                 /\ sessions[sid].user_id = u
                 /\ \A i \in DOMAIN job'.controls : job'.controls[i].user_id = u]_vars
    /\ []((pc = "save_controls" /\ job.via = "workflow") =>
             /\ job.sid \in DOMAIN sessions
             /\ sessions[job.sid].user_id = st.user_id
             /\ \A i \in DOMAIN job.controls : job.controls[i].user_id = st.user_id)

\* C29 (fusion never modifies the reference corpus): every entry of annex_data
\* keeps its reference and never carries a source key.
CorpusUnmodified ==
    /\ Len(fusion.annex_data) = Len(AnnexData)
    /\ \A i \in DOMAIN fusion.annex_data :
          /\ fusion.annex_data[i].reference = AnnexData[i].reference
          /\ fusion.annex_data[i].source = ""

====
